---- MODULE Spec2Model ----
(***************************************************************************)
(* A model of pymp3_ytdl.py: the script reads a list of URLs from a text   *)
(* file and, for each URL in turn, downloads/transcodes it to MP3 with     *)
(* yt-dlp, locates the resulting file, optionally renames it, writes the   *)
(* title/artist tags and embeds the thumbnail as cover art.                *)
(*                                                                         *)
(* Python strings are sequences of one-character strings.  Python values   *)
(* that may be None, a missing dictionary key or a string are records with *)
(* a kind field k, so that any two of them can be compared.  The external  *)
(* libraries (yt-dlp, mutagen, requests, Pillow) and the file system are   *)
(* the environment: every outcome they can produce is a nondeterministic   *)
(* choice of the action that calls them.                                   *)
(***************************************************************************)
EXTENDS Integers, Sequences, FiniteSets, TLC

\* ------------------------------------------------------------- bounds
\* The longest URL list of the batch specification.
MaxUrls == 2
\* The longest URL file, in characters, of the read_url_list specification.
MaxFileLen == 4

\* ------------------------------------------------------ Python values
PyNone == [k |-> "none"]
KeyAbsent == [k |-> "absent"]
PyStr(s) == [k |-> "str", s |-> s]
PyList(l) == [k |-> "list", l |-> l]

\* bool(v) for None, a string or a list.
Truthy(v) ==
  CASE v.k = "str" -> v.s # <<>>
    [] v.k = "list" -> v.l # <<>>
    [] OTHER -> FALSE

\* The characters str.strip() removes, among those of the model.
Whitespace == {" ", "\t", "\n"}

RECURSIVE LStrip(_)
LStrip(s) == IF s # <<>> /\ Head(s) \in Whitespace THEN LStrip(Tail(s)) ELSE s

RECURSIVE RStrip(_)
RStrip(s) ==
  IF s # <<>> /\ s[Len(s)] \in Whitespace THEN RStrip(SubSeq(s, 1, Len(s) - 1)) ELSE s

\* str.strip()
Strip(s) == RStrip(LStrip(s))

\* str.lower(), on the letters of the model.
LowerChar(c) ==
  CASE c = "M" -> "m"
    [] c = "P" -> "p"
    [] c = "W" -> "w"
    [] c = "E" -> "e"
    [] c = "B" -> "b"
    [] c = "I" -> "i"
    [] OTHER -> c

Lower(s) == [n \in 1..Len(s) |-> LowerChar(s[n])]

\* ------------------------------------------------------ read_url_list
\* Iterating a text file: the lines, each with its line end.
RECURSIVE FileLines(_)
FileLines(c) ==
  IF c = <<>> THEN <<>>
  ELSE LET ends == {n \in 1..Len(c) : c[n] = "\n"}
       IN IF ends = {} THEN <<c>>
          ELSE LET e == CHOOSE n \in ends : \A m \in ends : n <= m
               IN <<SubSeq(c, 1, e)>> \o FileLines(SubSeq(c, e + 1, Len(c)))

\* [line.strip() for line in f if line.strip()]
RECURSIVE StrippedNonBlank(_)
StrippedNonBlank(lines) ==
  IF lines = <<>> THEN <<>>
  ELSE LET s == Strip(Head(lines))
       IN IF s # <<>> THEN <<s>> \o StrippedNonBlank(Tail(lines))
          ELSE StrippedNonBlank(Tail(lines))

\* The lines kept as they are read, not stripped.
read_url_list_raw(status, c) ==
  IF status = "missing" THEN PyNone
  ELSE IF status = "unreadable" THEN PyNone
  ELSE LET urls == SelectSeq(FileLines(c), LAMBDA l : Strip(l) # <<>>)
       IN IF urls = <<>> THEN PyNone ELSE PyList(urls)

\* status: "missing" (os.path.isfile is false), "unreadable" (open or the
\* read raises) or "file" (the content c is read).
read_url_list(status, c) ==
  IF status = "missing" THEN PyNone
  ELSE IF status = "unreadable" THEN PyNone
  ELSE LET urls == StrippedNonBlank(FileLines(c))
       IN IF urls = <<>> THEN PyNone ELSE PyList(urls)

\* ------------------------------------------------------- file names
\* Files of the output directory are named by their base name: yt-dlp
\* writes every file there and the rename target is built with the same
\* os.path.dirname.
DotMp3 == <<".", "m", "p", "3">>
FileA == <<"a">> \o DotMp3
FileB == <<"b">> \o DotMp3
FileUpper == <<"c", ".", "M", "P", "3">>
FileWebm == <<"a", ".", "w", "e", "b", "m">>

\* s.lower().endswith(".mp3")
LowerEndsWithMp3(s) ==
  Len(s) >= 4 /\ SubSeq(Lower(s), Len(s) - 3, Len(s)) = DotMp3

UnknownTitle == <<"U", "n", "k", "n", "o", "w", "n", " ", "T", "i", "t", "l", "e">>
UnknownArtist == <<"U", "n", "k", "n", "o", "w", "n", " ", "A", "r", "t", "i", "s", "t">>

\* dict.get(key) and dict.get(key, default)
Get(d, key) == IF d[key] = KeyAbsent THEN PyNone ELSE d[key]
GetDefault(d, key, default) == IF d[key] = KeyAbsent THEN default ELSE d[key]

\* a or b
PyOr(a, b) == IF Truthy(a) THEN a ELSE b

\* --------------------------------------------------------------- state
VARIABLES
  pc,                       \* where the script is
  file_status, content,     \* the URL file: its status and its characters
  PERFORM_CUSTOM_RENAMING,  \* the configuration flag of the run
  dir_exists,               \* os.path.exists(output_dir)
  disk,                     \* the files of the output directory, by name
  urls_to_download,
  i, download_count,
  final_info_dict, downloaded_mp3_path,
  title_for_metadata, artist_for_metadata, thumbnail_url,
  final_path_for_metadata,
  response,                 \* the thumbnail response: header and image data
  log,                      \* the messages logged since the last progress line
  exit_status,
  attempted,                \* history: the URLs handed to extract_info, in order
  steps,                    \* history: the steps taken, as <<URL index, step>>
  counted,                  \* history: this iteration incremented download_count
  moved                     \* history: the shutil.move calls of this iteration

vars ==
  <<pc, file_status, content, PERFORM_CUSTOM_RENAMING, dir_exists, disk,
    urls_to_download, i, download_count, final_info_dict, downloaded_mp3_path,
    title_for_metadata, artist_for_metadata, thumbnail_url,
    final_path_for_metadata, response, log, exit_status, attempted, steps,
    counted, moved>>

\* The value of SANITIZE_WITH_RESTRICTED_MODE.
SANITIZE_WITH_RESTRICTED_MODE == FALSE

total_urls == Len(urls_to_download.l)

NoFile == [tags |-> PyNone, apic |-> PyNone]
ID3Tags(t, a) == [k |-> "id3", title |-> t, artist |-> a]
Apic(m, d) == [k |-> "apic", mime |-> m, data |-> d]

\* os.path.exists, for a file of the output directory.
Exists(name) == name \in DOMAIN disk

\* The disk with file name written (created or replaced) as f.
DiskWith(d, name, f) ==
  [n \in (DOMAIN d) \cup {name} |-> IF n = name THEN f ELSE d[n]]

\* The disk without file name.
DiskWithout(d, name) == [n \in (DOMAIN d) \ {name} |-> d[n]]

\* ------------------------------------- download_mp3_from_urls, its steps
\* Lines 274-288: the path of the MP3 file, from yt-dlp's info record.
RECURSIVE FirstMp3(_)
FirstMp3(entries) ==
  IF entries = <<>> THEN PyNone
  ELSE LET p == Get(Head(entries), "filepath")
       IN IF Truthy(p) /\ LowerEndsWithMp3(p.s) THEN p ELSE FirstMp3(Tail(entries))

LocatePath(info) ==
  LET top == Get(info, "filepath")
      req == Get(info, "requested_downloads")
  IN IF ~Truthy(top) \/ ~LowerEndsWithMp3(top.s)
     THEN IF Truthy(req) /\ FirstMp3(req.l) # PyNone THEN FirstMp3(req.l) ELSE top
     ELSE top

\* The success branch is taken for any path that ends in .mp3, on disk or
\* not.
Located_unchecked(path) == Truthy(path) /\ LowerEndsWithMp3(path.s)

\* Lines 290-294: the condition of the success branch.
Located(path) == Truthy(path) /\ Exists(path.s) /\ LowerEndsWithMp3(path.s)

\* Lines 300-307: (info.get(first) or info.get(second, default)).strip() or
\* default.  The value before .strip() is None when second is present with
\* a null value: .strip() then raises AttributeError.
MetadataSource(info, first, second, default) ==
  PyOr(Get(info, first), GetDefault(info, second, PyStr(default)))

MetadataRaises(info, first, second, default) ==
  MetadataSource(info, first, second, default).k # "str"

MetadataValue(info, first, second, default) ==
  LET s == Strip(MetadataSource(info, first, second, default).s)
  IN IF s # <<>> THEN s ELSE default

\* yt_dlp.utils.sanitize_filename, on the characters of the model: a path
\* separator is replaced (by "_" when restricted, by a look-alike
\* otherwise), and so is a space when restricted.
SanitizeChar(c, restricted) ==
  CASE c = "/" -> IF restricted THEN "_" ELSE "U+29F8"
    [] c = " " -> IF restricted THEN "_" ELSE c
    [] OTHER -> c

ydlp_sanitize_filename(s, restricted) ==
  [n \in 1..Len(s) |-> SanitizeChar(s[n], restricted)]

\* Lines 319-338
desired_filepath_mp3 ==
  ydlp_sanitize_filename(title_for_metadata, SANITIZE_WITH_RESTRICTED_MODE) \o DotMp3

\* ------------------------------------------------- what yt-dlp may return
InfoDict(fp, req, track, title, artist, uploader, thumb) ==
  [filepath |-> fp, requested_downloads |-> req, track |-> track, title |-> title,
   artist |-> artist, uploader |-> uploader, thumbnail |-> thumb]

DlInfo(fp) == [filepath |-> fp]

\* The records of the batch specification: the MP3 file named at the top
\* level, or by the second requested download, or by neither; the title
\* from the track, or blank, or null; the uploader missing, null or a
\* name; a thumbnail, or none.
BatchInfoDicts ==
  {InfoDict(fr[1], fr[2], tt[1], tt[2], KeyAbsent, up, th) :
     fr \in {<<PyStr(FileA), KeyAbsent>>,
             <<PyStr(FileWebm), PyList(<<DlInfo(PyStr(FileWebm)), DlInfo(PyStr(FileB))>>)>>,
             <<KeyAbsent, KeyAbsent>>},
     tt \in {<<PyStr(<<"b">>), PyStr(<<"a">>)>>, <<KeyAbsent, PyStr(<<" ">>)>>,
             <<KeyAbsent, PyNone>>},
     up \in {KeyAbsent, PyNone, PyStr(<<"u", " ">>)},
     th \in {PyNone, PyStr(<<"h">>)}}

\* The records of the one-iteration specification: every field missing,
\* null, empty, blank or a string to strip.
FieldValues == {KeyAbsent, PyNone, PyStr(<<>>), PyStr(<<" ">>), PyStr(<<" ", "b">>)}
Filepaths == {KeyAbsent, PyStr(<<>>), PyStr(FileA), PyStr(FileUpper), PyStr(FileWebm)}
RequestedDownloads ==
  {KeyAbsent, PyList(<<>>), PyList(<<DlInfo(KeyAbsent), DlInfo(PyStr(FileUpper))>>),
   PyList(<<DlInfo(PyStr(FileWebm)), DlInfo(PyStr(FileB)), DlInfo(PyStr(FileA))>>)}

InfoDicts ==
  {InfoDict(fp, req, tr, ti, ar, up, PyNone) :
     fp \in Filepaths, req \in RequestedDownloads, tr \in FieldValues,
     ti \in FieldValues, ar \in FieldValues, up \in FieldValues}

\* What yt-dlp and ffmpeg leave in the output directory for a record: the
\* file the record names, or nothing.
Written(info) ==
  IF Truthy(LocatePath(info)) THEN {{}, {LocatePath(info).s}} ELSE {{}}

\* What the thumbnail server may answer: a Content-Type header, or none,
\* and image data of some format.
ContentTypes == {KeyAbsent, PyStr("image/jpeg"), PyStr("image/webp"), PyStr("Image/WebP")}
ImageFormats == {"jpeg", "webp"}

\* str.lower(), on the Content-Type values of the model.
NoResponse == [header |-> KeyAbsent, data |-> "jpeg"]

LowerMime(m) == IF m = "Image/WebP" THEN "image/webp" ELSE m

\* ---------------------------------------------------------------- main
\* Lines 426-441: read the URL file; without URLs, exit with status 1.
MainReadUrlList ==
  /\ pc = "main"
  /\ urls_to_download' = read_url_list(file_status, content)
  /\ IF Truthy(urls_to_download')
     THEN /\ pc' = "makedirs"
          /\ UNCHANGED <<log, exit_status>>
     ELSE /\ pc' = "exit"
          /\ log' = <<"No URLs to process. Exiting.">>
          /\ exit_status' = 1
  /\ UNCHANGED <<file_status, content, PERFORM_CUSTOM_RENAMING, dir_exists, disk, i,
                 download_count, final_info_dict, downloaded_mp3_path,
                 title_for_metadata, artist_for_metadata, thumbnail_url,
                 final_path_for_metadata, response, attempted, steps, counted, moved>>

\* Lines 222-259: create the output directory when it is missing.  An
\* OSError of os.makedirs is re-raised and caught by main (lines 431-438).
MakeOutputDir ==
  /\ pc = "makedirs"
  /\ \E made \in BOOLEAN :
       IF dir_exists \/ made
       THEN /\ dir_exists' = TRUE
            /\ download_count' = 0
            /\ log' = <<"Starting download process">>
            /\ pc' = "loop"
            /\ UNCHANGED exit_status
       ELSE /\ log' = <<"Could not create output directory",
                       "A critical error occurred in download_mp3_from_urls">>
            /\ exit_status' = 1
            /\ pc' = "exit"
            /\ UNCHANGED <<dir_exists, download_count>>
  /\ UNCHANGED <<file_status, content, PERFORM_CUSTOM_RENAMING, disk, urls_to_download,
                 i, final_info_dict, downloaded_mp3_path, title_for_metadata,
                 artist_for_metadata, thumbnail_url, final_path_for_metadata,
                 response, attempted, steps, counted, moved>>

\* The next URL is started while the thumbnail of this one is pending.
LoopNext_early ==
  /\ pc \in {"loop", "thumbnail"}
  /\ i < total_urls
  /\ i' = i + 1
  /\ log' = <<"Processing URL">>
  /\ final_info_dict' = PyNone
  /\ downloaded_mp3_path' = PyNone
  /\ title_for_metadata' = <<>>
  /\ artist_for_metadata' = <<>>
  /\ thumbnail_url' = PyNone
  /\ final_path_for_metadata' = <<>>
  /\ response' = NoResponse
  /\ pc' = "extract_info"
  /\ steps' = <<>>
  /\ counted' = FALSE
  /\ moved' = <<>>
  /\ UNCHANGED <<file_status, content, PERFORM_CUSTOM_RENAMING, dir_exists, disk,
                 urls_to_download, download_count, exit_status, attempted>>

\* Lines 261-265: the next URL of the list.  The locals of the previous
\* iteration are dead (each is assigned before it is read again) and the
\* histories start afresh.
LoopNext ==
  /\ pc = "loop"
  /\ i < total_urls
  /\ i' = i + 1
  /\ log' = <<"Processing URL">>
  /\ final_info_dict' = PyNone
  /\ downloaded_mp3_path' = PyNone
  /\ title_for_metadata' = <<>>
  /\ artist_for_metadata' = <<>>
  /\ thumbnail_url' = PyNone
  /\ final_path_for_metadata' = <<>>
  /\ response' = NoResponse
  /\ pc' = "extract_info"
  /\ steps' = <<>>
  /\ counted' = FALSE
  /\ moved' = <<>>
  /\ UNCHANGED <<file_status, content, PERFORM_CUSTOM_RENAMING, dir_exists, disk,
                 urls_to_download, download_count, exit_status, attempted>>

\* The handlers propagate the error instead of logging it.
AfterDownloadFailure_raise == "exit"

\* Lines 381-392: after the warning for an empty result, and after either
\* except handler, the loop goes on with the next URL.
AfterDownloadFailure == "loop"

\* Lines 267-271 and 381-392: ydl.extract_info(url, download=True).  It
\* returns an info record, having left files in the output directory, or
\* nothing, or raises DownloadError or another Exception.
ExtractInfo ==
  /\ pc = "extract_info"
  /\ attempted' = Append(attempted, urls_to_download.l[i])
  /\ \/ \E info \in BatchInfoDicts : \E w \in Written(info) :
          /\ final_info_dict' = info
          /\ disk' = [n \in (DOMAIN disk) \cup w |-> IF n \in w THEN NoFile ELSE disk[n]]
          /\ pc' = "locate"
          /\ steps' = Append(steps, <<i, "download">>)
          /\ UNCHANGED log
     \/ \E failure \in {"did not return sufficient information", "DownloadError",
                        "An unexpected error occurred"} :
          /\ log' = Append(log, failure)
          /\ pc' = AfterDownloadFailure
          /\ steps' = steps \o <<<<i, "download">>, <<i, "outcome">>>>
          /\ UNCHANGED <<final_info_dict, disk>>
  /\ UNCHANGED <<file_status, content, PERFORM_CUSTOM_RENAMING, dir_exists,
                 urls_to_download, i, download_count, downloaded_mp3_path,
                 title_for_metadata, artist_for_metadata, thumbnail_url,
                 final_path_for_metadata, response, exit_status, counted, moved>>

\* Lines 273-311 and 369-380: locate the MP3 file the info record names.
\* When it is on disk the URL is counted and the title and artist are
\* taken from the record; an AttributeError of .strip() is caught by the
\* handler of lines 388-392.
LocateFile ==
  /\ pc = "locate"
  /\ LET path == LocatePath(final_info_dict)
     IN /\ downloaded_mp3_path' = path
        /\ IF Located(path)
           THEN /\ download_count' = download_count + 1
                /\ counted' = TRUE
                /\ IF MetadataRaises(final_info_dict, "track", "title", UnknownTitle)
                      \/ MetadataRaises(final_info_dict, "artist", "uploader", UnknownArtist)
                   THEN /\ log' = log \o <<"Download and conversion successful",
                                           "An unexpected error occurred">>
                        /\ pc' = AfterDownloadFailure
                        /\ steps' = steps \o <<<<i, "locate">>, <<i, "outcome">>>>
                        /\ UNCHANGED <<title_for_metadata, artist_for_metadata,
                                       thumbnail_url, final_path_for_metadata>>
                   ELSE /\ log' = Append(log, "Download and conversion successful")
                        /\ title_for_metadata' =
                             MetadataValue(final_info_dict, "track", "title", UnknownTitle)
                        /\ artist_for_metadata' =
                             MetadataValue(final_info_dict, "artist", "uploader", UnknownArtist)
                        /\ thumbnail_url' = Get(final_info_dict, "thumbnail")
                        /\ final_path_for_metadata' = path.s
                        /\ pc' = "rename"
                        /\ steps' = Append(steps, <<i, "locate">>)
           ELSE /\ log' = Append(log, "Could not reliably locate the final MP3 file path")
                /\ pc' = "loop"
                /\ steps' = Append(steps, <<i, "outcome">>)
                /\ UNCHANGED <<download_count, counted, title_for_metadata,
                               artist_for_metadata, thumbnail_url, final_path_for_metadata>>
  /\ UNCHANGED <<file_status, content, PERFORM_CUSTOM_RENAMING, dir_exists, disk,
                 urls_to_download, i, final_info_dict, response, exit_status,
                 attempted, moved>>

\* The move is made without looking at the target.
TargetExists_ignored == FALSE

\* Line 341: os.path.exists(desired_filepath_mp3)
TargetExists == Exists(desired_filepath_mp3)

\* The path handed to tagging is not updated after the move.
PathAfterMove_stale == downloaded_mp3_path.s

\* Line 353: after the move, final_path_for_metadata = desired_filepath_mp3
PathAfterMove == desired_filepath_mp3

\* Lines 313-361: the custom rename.  shutil.move either moves the file or
\* raises OSError and leaves it where it is.
Rename ==
  /\ pc = "rename"
  /\ IF PERFORM_CUSTOM_RENAMING
        /\ downloaded_mp3_path.s # desired_filepath_mp3
        /\ ~TargetExists
     THEN \E ok \in BOOLEAN :
            IF ok
            THEN /\ disk' = DiskWith(DiskWithout(disk, downloaded_mp3_path.s),
                                     desired_filepath_mp3, disk[downloaded_mp3_path.s])
                 /\ final_path_for_metadata' = PathAfterMove
                 /\ moved' = Append(moved, <<downloaded_mp3_path.s, desired_filepath_mp3>>)
                 /\ log' = Append(log, "Renaming")
            ELSE /\ log' = log \o <<"Renaming", "(Rename): Could not rename file">>
                 /\ UNCHANGED <<disk, final_path_for_metadata, moved>>
     ELSE /\ IF PERFORM_CUSTOM_RENAMING /\ downloaded_mp3_path.s # desired_filepath_mp3
             THEN log' = Append(log, "(Rename): Target file already exists. Not renaming.")
             ELSE UNCHANGED log
          /\ UNCHANGED <<disk, final_path_for_metadata, moved>>
  /\ pc' = "apply"
  /\ UNCHANGED <<file_status, content, PERFORM_CUSTOM_RENAMING, dir_exists,
                 urls_to_download, i, download_count, final_info_dict,
                 downloaded_mp3_path, title_for_metadata, artist_for_metadata,
                 thumbnail_url, response, exit_status, attempted, steps, counted>>

\* ------------------------------------------- apply_metadata_and_cover
\* Lines 129-151 and 210-214: open the tags (creating the ID3 header when
\* there is none), set title and artist and save.  Any exception is caught
\* by the outer handler and the function returns.
ApplyTags ==
  /\ pc = "apply"
  /\ IF ~Exists(final_path_for_metadata)
     THEN /\ log' = Append(log, "(apply_metadata): MP3 file not found")
          /\ pc' = "loop"
          /\ steps' = Append(steps, <<i, "outcome">>)
          /\ UNCHANGED disk
     ELSE \E saved \in BOOLEAN :
            IF saved
            THEN /\ disk' = [disk EXCEPT ![final_path_for_metadata].tags =
                               ID3Tags(title_for_metadata, artist_for_metadata)]
                 /\ UNCHANGED log
                 /\ IF Truthy(thumbnail_url)
                    THEN /\ pc' = "thumbnail"
                         /\ steps' = Append(steps, <<i, "tags">>)
                    ELSE /\ pc' = "loop"
                         /\ steps' = steps \o <<<<i, "tags">>, <<i, "outcome">>>>
            ELSE /\ log' = Append(log, "Failed to set metadata")
                 /\ pc' = "loop"
                 /\ steps' = steps \o <<<<i, "tags">>, <<i, "outcome">>>>
                 /\ UNCHANGED disk
  /\ UNCHANGED <<file_status, content, PERFORM_CUSTOM_RENAMING, dir_exists,
                 urls_to_download, i, download_count, final_info_dict,
                 downloaded_mp3_path, title_for_metadata, artist_for_metadata,
                 thumbnail_url, final_path_for_metadata, response, exit_status,
                 attempted, counted, moved>>

\* Lines 153-162 and 202-209: fetch the thumbnail.  A failed request
\* (RequestException, or any other Exception) is logged and the function
\* returns.
FetchThumbnail ==
  /\ pc = "thumbnail"
  /\ \/ \E h \in ContentTypes, d \in ImageFormats :
          /\ response' = [header |-> h, data |-> d]
          /\ pc' = "embed"
          /\ steps' = Append(steps, <<i, "thumbnail">>)
          /\ UNCHANGED log
     \/ \E failure \in {"Could not download thumbnail", "Could not embed cover art"} :
          /\ log' = Append(log, failure)
          /\ pc' = "loop"
          /\ steps' = steps \o <<<<i, "thumbnail">>, <<i, "outcome">>>>
          /\ UNCHANGED response
  /\ UNCHANGED <<file_status, content, PERFORM_CUSTOM_RENAMING, dir_exists, disk,
                 urls_to_download, i, download_count, final_info_dict,
                 downloaded_mp3_path, title_for_metadata, artist_for_metadata,
                 thumbnail_url, final_path_for_metadata, exit_status, attempted,
                 counted, moved>>

\* Lines 159-161
original_mime_type == LowerMime(GetDefault(response, "header", PyStr("image/jpeg")).s)

\* The Content-Type is compared as it came, not lower-cased.
FinalImage_cased(converted) ==
  IF GetDefault(response, "header", PyStr("image/jpeg")).s = "image/webp" /\ converted
  THEN Apic("image/jpeg", "jpeg")
  ELSE Apic(original_mime_type, response.data)

\* Lines 164-185: the image to embed.  A WebP response is converted to
\* JPEG; when the conversion fails the original data is kept.
FinalImage(converted) ==
  IF original_mime_type = "image/webp" /\ converted
  THEN Apic("image/jpeg", "jpeg")
  ELSE Apic(original_mime_type, response.data)

\* The cover is saved over the tags of the file: title and artist are lost.
EmbedCover_overwrite ==
  /\ pc = "embed"
  /\ \E converted \in BOOLEAN, saved \in BOOLEAN :
       IF saved
       THEN /\ disk' = [disk EXCEPT ![final_path_for_metadata] =
                          [tags |-> PyNone, apic |-> FinalImage(converted)]]
            /\ log' = IF original_mime_type = "image/webp" /\ ~converted
                      THEN Append(log, "Failed to convert WEBP to JPEG")
                      ELSE log
       ELSE /\ log' = Append(log, "Could not embed cover art")
            /\ UNCHANGED disk
  /\ pc' = "loop"
  /\ steps' = steps \o <<<<i, "cover">>, <<i, "outcome">>>>
  /\ UNCHANGED <<file_status, content, PERFORM_CUSTOM_RENAMING, dir_exists,
                 urls_to_download, i, download_count, final_info_dict,
                 downloaded_mp3_path, title_for_metadata, artist_for_metadata,
                 thumbnail_url, final_path_for_metadata, response, exit_status,
                 attempted, counted, moved>>

\* Lines 164-198 and 206-209: convert and embed the cover.  A failure of
\* ID3() or of its save is logged and the function returns.
EmbedCover ==
  /\ pc = "embed"
  /\ \E converted \in BOOLEAN, saved \in BOOLEAN :
       IF saved
       THEN /\ disk' = [disk EXCEPT ![final_path_for_metadata].apic = FinalImage(converted)]
            /\ log' = IF original_mime_type = "image/webp" /\ ~converted
                      THEN Append(log, "Failed to convert WEBP to JPEG")
                      ELSE log
       ELSE /\ log' = Append(log, "Could not embed cover art")
            /\ UNCHANGED disk
  /\ pc' = "loop"
  /\ steps' = steps \o <<<<i, "cover">>, <<i, "outcome">>>>
  /\ UNCHANGED <<file_status, content, PERFORM_CUSTOM_RENAMING, dir_exists,
                 urls_to_download, i, download_count, final_info_dict,
                 downloaded_mp3_path, title_for_metadata, artist_for_metadata,
                 thumbnail_url, final_path_for_metadata, response, exit_status,
                 attempted, counted, moved>>

\* Lines 394-401: the summary, after the last URL.
Summary ==
  /\ pc = "loop"
  /\ i >= total_urls
  /\ log' = <<"--- Download Process Finished ---",
              IF download_count > 0
              THEN "Successfully attempted to download and process"
              ELSE "No items were successfully downloaded or processed.",
              "Files are located in">>
  /\ pc' = "returned"
  /\ UNCHANGED <<file_status, content, PERFORM_CUSTOM_RENAMING, dir_exists, disk,
                 urls_to_download, i, download_count, final_info_dict,
                 downloaded_mp3_path, title_for_metadata, artist_for_metadata,
                 thumbnail_url, final_path_for_metadata, response, exit_status,
                 attempted, steps, counted, moved>>

\* The script reports a batch without any success as a failure.
MainFinished_strict ==
  /\ pc = "returned"
  /\ log' = Append(log, "Script finished successfully.")
  /\ exit_status' = IF download_count = 0 THEN 1 ELSE 0
  /\ pc' = "exit"
  /\ UNCHANGED <<file_status, content, PERFORM_CUSTOM_RENAMING, dir_exists, disk,
                 urls_to_download, i, download_count, final_info_dict,
                 downloaded_mp3_path, title_for_metadata, artist_for_metadata,
                 thumbnail_url, final_path_for_metadata, response, attempted, steps,
                 counted, moved>>

\* Line 443: download_mp3_from_urls returned; the script ends with status 0.
MainFinished ==
  /\ pc = "returned"
  /\ log' = Append(log, "Script finished successfully.")
  /\ exit_status' = 0
  /\ pc' = "exit"
  /\ UNCHANGED <<file_status, content, PERFORM_CUSTOM_RENAMING, dir_exists, disk,
                 urls_to_download, i, download_count, final_info_dict,
                 downloaded_mp3_path, title_for_metadata, artist_for_metadata,
                 thumbnail_url, final_path_for_metadata, response, attempted, steps,
                 counted, moved>>

\* ------------------------------------------------------ specifications
\* The batch: a URL file of up to MaxUrls lines, one URL each, or a file
\* with a blank line only; an empty output directory, or none yet.
UrlChars == <<"u", "v", "w", "x">>

RECURSIVE UrlFile(_)
UrlFile(n) == IF n = 0 THEN <<>> ELSE UrlFile(n - 1) \o <<UrlChars[n], "\n">>

UrlFiles == {UrlFile(n) : n \in 0..MaxUrls} \cup {<<" ", "\n">>}

EmptyDisk == [n \in {} |-> NoFile]

\* The locals of the loop before its first iteration.
InitLocals ==
  /\ final_info_dict = PyNone
  /\ downloaded_mp3_path = PyNone
  /\ title_for_metadata = <<>>
  /\ artist_for_metadata = <<>>
  /\ thumbnail_url = PyNone
  /\ final_path_for_metadata = <<>>
  /\ response = NoResponse
  /\ exit_status = -1
  /\ counted = FALSE
  /\ moved = <<>>

Init ==
  /\ InitLocals
  /\ pc = "main"
  /\ file_status \in {"missing", "unreadable", "file"}
  /\ content \in UrlFiles
  /\ PERFORM_CUSTOM_RENAMING \in BOOLEAN
  /\ dir_exists \in BOOLEAN
  /\ disk = EmptyDisk
  /\ urls_to_download = PyNone
  /\ i = 0
  /\ download_count = 0
  /\ log = <<>>
  /\ attempted = <<>>
  /\ steps = <<>>

Next ==
  \/ MainReadUrlList
  \/ MakeOutputDir
  \/ LoopNext
  \/ ExtractInfo
  \/ LocateFile
  \/ Rename
  \/ ApplyTags
  \/ FetchThumbnail
  \/ EmbedCover
  \/ Summary
  \/ MainFinished

Spec == Init /\ [][Next]_vars

\* read_url_list alone, on every file of up to MaxFileLen characters.
ReadAlphabet == {"u", "v", " ", "\t", "\n"}

ReadFiles == UNION {[1..n -> ReadAlphabet] : n \in 0..MaxFileLen}

InitRead ==
  /\ InitLocals
  /\ pc = "main"
  /\ file_status \in {"missing", "unreadable", "file"}
  /\ content \in ReadFiles
  /\ PERFORM_CUSTOM_RENAMING = FALSE
  /\ dir_exists = TRUE
  /\ disk = EmptyDisk
  /\ urls_to_download = PyNone
  /\ i = 0
  /\ download_count = 0
  /\ log = <<>>
  /\ attempted = <<>>
  /\ steps = <<>>

NextRead == MainReadUrlList

SpecRead == InitRead /\ [][NextRead]_vars

\* One iteration of the loop from the return of extract_info, on every
\* info record of InfoDicts, with the files it may name on disk or not.
OneUrl == PyList(<<<<"u">>>>)

InitIteration ==
  /\ pc = "locate"
  /\ file_status = "file"
  /\ content = <<"u">>
  /\ PERFORM_CUSTOM_RENAMING \in BOOLEAN
  /\ dir_exists = TRUE
  /\ disk \in {EmptyDisk, [n \in {FileA, FileB, FileUpper} |-> NoFile]}
  /\ urls_to_download = OneUrl
  /\ i = 1
  /\ download_count = 0
  /\ final_info_dict \in InfoDicts
  /\ downloaded_mp3_path = PyNone
  /\ title_for_metadata = <<>>
  /\ artist_for_metadata = <<>>
  /\ thumbnail_url = PyNone
  /\ final_path_for_metadata = <<>>
  /\ response = NoResponse
  /\ log = <<"Processing URL">>
  /\ exit_status = -1
  /\ attempted = <<<<"u">>>>
  /\ steps = <<<<1, "download">>>>
  /\ counted = FALSE
  /\ moved = <<>>

NextIteration == LocateFile \/ Rename \/ ApplyTags

SpecIteration == InitIteration /\ [][NextIteration]_vars

\* apply_metadata_and_cover alone: called for a file that is on disk,
\* tagged or not, or for one that is not.
TaggedFile == [tags |-> ID3Tags(<<"o">>, <<"o">>), apic |-> Apic("image/jpeg", "jpeg")]

InitApply ==
  /\ pc = "apply"
  /\ file_status = "file"
  /\ content = <<"u">>
  /\ PERFORM_CUSTOM_RENAMING = FALSE
  /\ dir_exists = TRUE
  /\ disk \in {EmptyDisk, [n \in {FileA} |-> NoFile], [n \in {FileA, FileB} |-> TaggedFile]}
  /\ urls_to_download = OneUrl
  /\ i = 1
  /\ download_count = 1
  /\ final_info_dict = PyNone
  /\ final_path_for_metadata \in {FileA, FileB}
  /\ downloaded_mp3_path = PyStr(final_path_for_metadata)
  /\ title_for_metadata \in {<<"b">>, UnknownTitle}
  /\ artist_for_metadata \in {<<"r">>, UnknownArtist}
  /\ thumbnail_url \in {PyNone, PyStr(<<>>), PyStr(<<"h">>)}
  /\ response = NoResponse
  /\ log = <<"Processing URL", "Download and conversion successful">>
  /\ exit_status = -1
  /\ attempted = <<<<"u">>>>
  /\ steps = <<<<1, "download">>, <<1, "locate">>>>
  /\ counted = TRUE
  /\ moved = <<>>

NextApply == ApplyTags \/ FetchThumbnail \/ EmbedCover

SpecApply == InitApply /\ [][NextApply]_vars

\* ================================================================ claims
SetMin(S) == CHOOSE n \in S : \A m \in S : n <= m
SetMax(S) == CHOOSE n \in S : \A m \in S : n >= m
\* The j-th smallest element of a set of numbers.
Nth(S, j) == CHOOSE n \in S : Cardinality({m \in S : m < n}) = j - 1

\* ---- C3
\* The lines of a file by position: a line starts at the first character
\* and after every line end, and runs to its line end or the end of file.
C3_LineStarts(c) == {n \in 1..Len(c) : n = 1 \/ c[n - 1] = "\n"}
C3_Line(c, a) ==
  LET ends == {n \in a..Len(c) : c[n] = "\n"}
  IN SubSeq(c, a, IF ends = {} THEN Len(c) ELSE SetMin(ends))
C3_NonBlank(l) == \E n \in 1..Len(l) : l[n] \notin Whitespace
C3_Trimmed(l) ==
  LET solid == {n \in 1..Len(l) : l[n] \notin Whitespace}
  IN SubSeq(l, SetMin(solid), SetMax(solid))
C3_Expected(c) ==
  LET kept == {a \in C3_LineStarts(c) : C3_NonBlank(C3_Line(c, a))}
  IN [j \in 1..Cardinality(kept) |-> C3_Trimmed(C3_Line(c, Nth(kept, j)))]

\* C3: read_url_list returns exactly the lines that are non-empty after
\* whitespace stripping, each stripped, in file order and with duplicates
\* kept; it returns None, never an empty list, when the file does not
\* exist, cannot be read or has no non-blank line.
C3_ReadUrlList ==
  pc # "main" =>
    urls_to_download =
      IF file_status = "file" /\ Len(C3_Expected(content)) > 0
      THEN PyList(C3_Expected(content))
      ELSE PyNone

\* A file with a blank line between two equal URLs: both are returned.
C3_Witness ==
  /\ pc # "main"
  /\ file_status = "file"
  /\ content = <<"u", "\n", "\n", "u">>
  /\ urls_to_download = PyList(<<<<"u">>, <<"u">>>>)

\* ---- C1
\* C1: failed downloads do not abort the batch.  Whatever the outcome of a
\* URL (nothing returned, DownloadError, another Exception, file not
\* located, success), the URLs handed to the downloader are at every moment
\* the first URLs of the list, each once and in list order; after every
\* URL the loop goes on to the next URL or to the summary; and a run that
\* has attempted a URL ends only past the summary, with every URL of the
\* list attempted.
C1_BatchNotAborted ==
  /\ Truthy(urls_to_download) =>
       /\ Len(attempted) <= total_urls
       /\ attempted = SubSeq(urls_to_download.l, 1, Len(attempted))
       /\ Len(attempted) = IF pc = "extract_info" THEN i - 1 ELSE i
  /\ ~Truthy(urls_to_download) => attempted = <<>>
  /\ pc = "loop" => ENABLED (LoopNext \/ Summary)
  /\ pc \in {"returned", "exit"} /\ attempted # <<>> =>
       /\ attempted = urls_to_download.l
       /\ log[1] = "--- Download Process Finished ---"

\* Two URLs, one of them failed, and the summary reached.
C1_Witness ==
  /\ pc = "returned"
  /\ Len(attempted) = 2
  /\ download_count = 1
  /\ log[1] = "--- Download Process Finished ---"

\* ---- C2
\* No character of the file is part of a URL.
C2_NoUrls == file_status # "file" \/ \A n \in 1..Len(content) : content[n] \in Whitespace

\* C2: the process exits with status 1 exactly when read_url_list yields no
\* URLs or download_mp3_from_urls raises (the output directory cannot be
\* created); every other run, also one in which URLs fail, logs 'Script
\* finished successfully.' last and exits with status 0.
C2_ExitStatus ==
  pc = "exit" =>
    /\ exit_status \in {0, 1}
    /\ exit_status = 1 <=> (C2_NoUrls \/ ~dir_exists)
    /\ exit_status = 0 => log[Len(log)] = "Script finished successfully."

\* A run of two URLs, neither of them a success, that exits with status 0.
C2_Witness ==
  /\ pc = "exit"
  /\ exit_status = 0
  /\ i = 2
  /\ download_count = 0

\* ---- C7
C7_Rank(step) ==
  CASE step = "download" -> 1
    [] step = "locate" -> 2
    [] step = "tags" -> 3
    [] step = "thumbnail" -> 4
    [] step = "cover" -> 5
    [] step = "outcome" -> 6

\* The steps recorded are those of the current URL, in the fixed order,
\* starting with the download; tags come only after the file was located.
C7_StepsInOrder ==
  /\ \A k \in 1..Len(steps) : steps[k][1] = i
  /\ \A k \in 1..(Len(steps) - 1) : C7_Rank(steps[k][2]) < C7_Rank(steps[k + 1][2])
  /\ steps # <<>> => steps[1][2] = "download"
  /\ (\E k \in 1..Len(steps) : steps[k][2] \in {"tags", "thumbnail", "cover"}) =>
       steps[2] = <<i, "locate">>

\* A step that writes title/artist tags to a file writes them to the file
\* located for the current URL; the loop moves to the next URL only when
\* the last step of the current one is its outcome; the download of a URL
\* is its first step.
C7_StepsOfOneUrl ==
  /\ \A n \in DOMAIN disk :
       (n \in DOMAIN disk' /\ disk'[n].tags.k = "id3" /\ disk'[n].tags # disk[n].tags) =>
         /\ n = final_path_for_metadata
         /\ steps[2] = <<i, "locate">>
         /\ i' = i
  /\ i' # i =>
       /\ i' = i + 1
       /\ pc = "loop" /\ pc' = "extract_info"
       /\ i > 0 => steps[Len(steps)] = <<i, "outcome">>
  /\ attempted' # attempted => steps = <<>> /\ steps'[1] = <<i, "download">>
  /\ pc \in {"thumbnail", "embed"} => i' = i /\ attempted' = attempted

\* C7: one URL is processed at a time, in the order download -> locate the
\* file -> write tags and cover -> outcome: tags are written only after the
\* MP3 file was located on disk, and the download of the next URL starts
\* only after every step of the current URL has finished or failed.
C7_OneUrlAtATime == [](C7_StepsInOrder) /\ [][C7_StepsOfOneUrl]_vars

\* The second URL has gone through every step, cover included.
C7_Witness ==
  /\ i = 2
  /\ pc = "loop"
  /\ steps = <<<<2, "download">>, <<2, "locate">>, <<2, "tags">>, <<2, "thumbnail">>,
               <<2, "cover">>, <<2, "outcome">>>>

\* ---- C9
\* While the thumbnail is fetched and embedded the saved title and artist
\* are on the file; the function is at one of its steps or has returned.
C9_TagsSavedFirst ==
  /\ pc \in {"thumbnail", "embed"} =>
       /\ Exists(final_path_for_metadata)
       /\ disk[final_path_for_metadata].tags =
            ID3Tags(title_for_metadata, artist_for_metadata)
  /\ pc \in {"apply", "thumbnail", "embed", "loop"}
  /\ pc \in {"apply", "thumbnail", "embed"} => ENABLED NextApply
  /\ (pc = "loop" /\ \E k \in 1..Len(steps) : steps[k][2] = "thumbnail") =>
       disk[final_path_for_metadata].tags =
         ID3Tags(title_for_metadata, artist_for_metadata)

\* No thumbnail step, failed or not, changes the tags of any file or ends
\* anywhere but at the next step or the return; a call for a path that is
\* not on disk returns without a request and without a write.
C9_ThumbnailStep ==
  /\ pc \in {"thumbnail", "embed"} =>
       /\ pc' \in {"embed", "loop"}
       /\ DOMAIN disk' = DOMAIN disk
       /\ \A n \in DOMAIN disk : disk'[n].tags = disk[n].tags
  /\ pc = "apply" => pc' \in {"thumbnail", "loop"}
  /\ (pc = "apply" /\ ~Exists(final_path_for_metadata)) =>
       /\ pc' = "loop"
       /\ disk' = disk
       /\ response' = response
       /\ steps' = Append(steps, <<i, "outcome">>)

\* C9: apply_metadata_and_cover saves title and artist before it fetches
\* the thumbnail; a failure of the thumbnail step leaves them in place and
\* is not propagated; the function never raises to its caller; for a path
\* that does not exist it returns without fetching or writing.
C9_CoverFailuresIsolated == [](C9_TagsSavedFirst) /\ [][C9_ThumbnailStep]_vars

\* The cover could not be embedded, on a file that had other tags before:
\* the function has returned and the new title and artist are on the file.
C9_Witness ==
  /\ pc = "loop"
  /\ log[Len(log)] = "Could not embed cover art"
  /\ steps[Len(steps) - 1][2] = "cover"
  /\ disk[final_path_for_metadata].tags = ID3Tags(<<"b">>, UnknownArtist)

\* ---- C10
\* With renaming disabled nothing is moved; metadata is applied to a path
\* that is on disk.
C10_AppliedWhereTheFileIs ==
  /\ ~PERFORM_CUSTOM_RENAMING => moved = <<>>
  /\ pc = "apply" =>
       /\ Exists(final_path_for_metadata)
       /\ Len(moved) <= 1
       /\ final_path_for_metadata =
            IF moved = <<>> THEN downloaded_mp3_path.s ELSE moved[1][2]

\* The rename step keeps every other file as it is, keeps the number of
\* files, moves the downloaded file only to a different path that was
\* free, and leaves the file, unchanged, at the path handed to tagging.
C10_RenameStep ==
  pc = "rename" =>
    LET from == downloaded_mp3_path.s
        to == desired_filepath_mp3
    IN /\ \A n \in (DOMAIN disk) \ {from} : n \in DOMAIN disk' /\ disk'[n] = disk[n]
       /\ Cardinality(DOMAIN disk') = Cardinality(DOMAIN disk)
       /\ final_path_for_metadata' \in DOMAIN disk'
       /\ disk'[final_path_for_metadata'] = disk[from]
       /\ IF disk' # disk
          THEN /\ PERFORM_CUSTOM_RENAMING
               /\ from # to
               /\ to \notin DOMAIN disk
               /\ from \notin DOMAIN disk'
               /\ final_path_for_metadata' = to
               /\ moved' = <<<<from, to>>>>
          ELSE /\ final_path_for_metadata' = from
               /\ moved' = <<>>
       /\ (PERFORM_CUSTOM_RENAMING /\ from # to /\ to \in DOMAIN disk) => disk' = disk

\* C10: custom renaming never overwrites or loses a file.  The downloaded
\* file is moved only when the target path differs from its path and does
\* not exist; when the target exists or the move fails it stays where the
\* downloader put it; metadata is applied to the path where the file is
\* after the rename step; with renaming disabled no file is moved.
C10_RenameNeverOverwrites == [](C10_AppliedWhereTheFileIs) /\ [][C10_RenameStep]_vars

\* Two URLs with the same title: the first file took the name, the second
\* stays at the downloader's path and is tagged there.
C10_Witness ==
  /\ PERFORM_CUSTOM_RENAMING
  /\ pc = "apply"
  /\ i = 2
  /\ downloaded_mp3_path.s # desired_filepath_mp3
  /\ Exists(desired_filepath_mp3)
  /\ final_path_for_metadata = downloaded_mp3_path.s
  /\ log[Len(log)] = "(Rename): Target file already exists. Not renaming."

\* ---- C5
\* The step that writes the cover, and the frame it writes.
C5_Embeds == pc = "embed" /\ disk' # disk
C5_Frame == disk'[final_path_for_metadata].apic

\* C5 as stated: whenever a cover is embedded whose downloaded thumbnail is
\* WebP (WebP data, served as image/webp), the frame written carries JPEG
\* data with mime type image/jpeg.
C5_WebpNeverEmbedded ==
  [][(C5_Embeds /\ response.data = "webp" /\ original_mime_type = "image/webp") =>
       C5_Frame = Apic("image/jpeg", "jpeg")]_vars

\* C5, amended: whenever a cover is embedded for a response whose
\* Content-Type is image/webp in any letter case and the conversion to
\* JPEG succeeded, the frame written carries JPEG data with mime type
\* image/jpeg; when the conversion failed (the warning is logged), or the
\* Content-Type is another one or missing, the response's data is embedded
\* as it came, under the lower-cased Content-Type (image/jpeg when missing).
C5_WebpConverted ==
  [][C5_Embeds =>
       LET webp == response.header \in {PyStr("image/webp"), PyStr("Image/WebP")}
           failed == log'[Len(log')] = "Failed to convert WEBP to JPEG"
       IN /\ failed => webp
          /\ C5_Frame =
               IF webp /\ ~failed THEN Apic("image/jpeg", "jpeg")
               ELSE IF webp THEN Apic("image/webp", response.data)
               ELSE IF response.header = KeyAbsent THEN Apic("image/jpeg", response.data)
               ELSE Apic(response.header.s, response.data)]_vars

\* A WebP thumbnail served as Image/WebP is on the file as JPEG.
C5_Witness ==
  /\ pc = "loop"
  /\ response = [header |-> PyStr("Image/WebP"), data |-> "webp"]
  /\ steps[Len(steps) - 1][2] = "cover"
  /\ disk[final_path_for_metadata].apic = Apic("image/jpeg", "jpeg")

\* ---- C4
\* A field that is present, a string, and not blank.
C4_Usable(v) == v.k = "str" /\ \E n \in 1..Len(v.s) : v.s[n] \notin Whitespace

C4_Expected(info, first, second, default) ==
  IF C4_Usable(info[first]) THEN C3_Trimmed(info[first].s)
  ELSE IF C4_Usable(info[second]) THEN C3_Trimmed(info[second].s)
  ELSE default

\* The "tags" step of the current URL has been taken.
C4_TaggingPerformed == \E k \in 1..Len(steps) : steps[k] = <<i, "tags">>

\* C4: for every info record of a located MP3, the title passed to tagging
\* is the stripped track if usable, else the stripped title, else "Unknown
\* Title", the artist is the stripped artist if usable, else the stripped
\* uploader, else "Unknown Artist", and tagging is performed.
C4_MetadataFallbacks ==
  (counted /\ pc # "locate") =>
    /\ title_for_metadata = C4_Expected(final_info_dict, "track", "title", UnknownTitle)
    /\ artist_for_metadata = C4_Expected(final_info_dict, "artist", "uploader", UnknownArtist)
    /\ title_for_metadata # <<>> /\ artist_for_metadata # <<>>
    /\ pc = "loop" => C4_TaggingPerformed

\* ---- C6
\* Where the file of the current URL is after the rename step.
C6_FileOfUrl == IF moved # <<>> THEN moved[1][2] ELSE downloaded_mp3_path.s

C6_Logged(message) == \E k \in 1..Len(log) : log[k] = message

\* C6 as stated: for every URL whose processing incremented download_count,
\* when the loop moves on the title and artist tags are on the file of
\* that URL.
C6_CountedIsTagged ==
  (pc = "loop" /\ counted) =>
    /\ Exists(C6_FileOfUrl)
    /\ disk[C6_FileOfUrl].tags.k = "id3"

\* C6, amended: for every URL whose processing incremented download_count,
\* when the loop moves on the file of that URL is on disk (at the renamed
\* path when it was moved, at the downloader's path otherwise) and either
\* the title and artist handed to tagging are on it, or an error was logged
\* for the URL: 'Failed to set metadata' by the tag write, or 'An unexpected
\* error occurred' by the extraction of title and artist; the URL stays
\* counted.
C6_CountedIsTaggedOrLogged ==
  (pc = "loop" /\ counted) =>
    /\ Exists(C6_FileOfUrl)
    /\ download_count >= 1
    /\ \/ /\ disk[C6_FileOfUrl].tags = ID3Tags(title_for_metadata, artist_for_metadata)
          /\ title_for_metadata # <<>> /\ artist_for_metadata # <<>>
       \/ C6_Logged("Failed to set metadata")
       \/ C6_Logged("An unexpected error occurred")

\* A counted URL whose file was renamed and is tagged at the new path.
C6_Witness ==
  /\ pc = "loop"
  /\ counted
  /\ moved # <<>>
  /\ disk[moved[1][2]].tags = ID3Tags(title_for_metadata, artist_for_metadata)

\* ---- C8
\* The path the claim names: the top-level filepath when it is set and
\* ends in .mp3, otherwise that of the first requested download that does.
C8_Mp3(v) == v.k = "str" /\ v.s # <<>> /\ LowerEndsWithMp3(v.s)

C8_Chosen(info) ==
  IF C8_Mp3(info.filepath) THEN info.filepath
  ELSE IF info.requested_downloads.k # "list" THEN PyNone
  ELSE LET l == info.requested_downloads.l
           hits == {n \in 1..Len(l) : C8_Mp3(l[n].filepath)}
       IN IF hits = {} THEN PyNone ELSE l[SetMin(hits)].filepath

C8_Success(info) == C8_Mp3(C8_Chosen(info)) /\ C8_Chosen(info).s \in DOMAIN disk

\* C8: a URL is treated as a success, counted and handed on to renaming and
\* tagging, if and only if the chosen path is non-empty, ends in .mp3 and
\* exists on disk; otherwise 'Could not reliably locate' is logged, no file
\* is touched and download_count is unchanged.
C8_SuccessIffLocated ==
  [][pc = "locate" =>
       IF C8_Success(final_info_dict)
       THEN /\ download_count' = download_count + 1
            /\ downloaded_mp3_path' = C8_Chosen(final_info_dict)
            /\ pc' = "rename"
       ELSE /\ download_count' = download_count
            /\ log'[Len(log')] = "Could not reliably locate the final MP3 file path"
            /\ disk' = disk
            /\ pc' = "loop"]_vars

\* ---- C11
\* The loop is running or has just finished.
C11_InLoop == pc \in {"loop", "extract_info", "locate", "rename", "apply",
                      "thumbnail", "embed", "returned"}

\* The counter lies between 0 and the number of URLs started, which is at
\* most the length of the list; a URL not (yet) counted leaves the counter
\* below the number of URLs started.
C11_Range ==
  C11_InLoop =>
    /\ 0 <= download_count
    /\ download_count <= i
    /\ i <= total_urls
    /\ (i > 0 /\ ~counted /\ pc # "returned") => download_count <= i - 1

\* The summary names the absence of any success exactly when the counter
\* is 0.
C11_Summary ==
  pc = "returned" =>
    /\ C6_Logged("No items were successfully downloaded or processed.")
         <=> download_count = 0
    /\ C6_Logged("Successfully attempted to download and process")
         <=> download_count > 0

\* A step changes the counter only by adding one, only in the step that
\* locates the file of the current URL, and at most once for a URL; that
\* step adds one exactly when the chosen path ends in .mp3 and is on disk.
C11_Step ==
  /\ download_count' # download_count =>
       /\ download_count' = download_count + 1
       /\ pc = "locate"
       /\ ~counted /\ counted'
       /\ i' = i
  /\ pc = "locate" =>
       (download_count' = download_count + 1 <=> C8_Success(final_info_dict))
  /\ i' # i => download_count' = download_count

\* C11: download_count is a faithful success counter.  At every point of
\* the loop 0 <= download_count <= number of URLs started <= total_urls; it
\* grows by exactly one for a URL whose MP3 file was located and by zero for
\* every other outcome, and is never decreased, whatever happens to the
\* rename or the tagging afterwards; the summary reports 'No items were
\* successfully downloaded or processed.' exactly when it is 0.
C11_FaithfulCounter == [](C11_Range /\ C11_Summary) /\ [][C11_Step]_vars

\* Two URLs, the first counted and the second not; the summary reports a
\* success.
C11_Witness ==
  /\ pc = "returned"
  /\ i = 2
  /\ download_count = 1
  /\ ~counted
  /\ C6_Logged("Successfully attempted to download and process")

====
